---- MODULE Spec2Model ----
(***************************************************************************)
(* Model of sync_issues.py: a script that copies the open issues of an     *)
(* upstream repository into a fork.  The two repositories are the remote   *)
(* state; the script is one sequential process whose position is pc.       *)
(* Every remote call may raise; nothing in the script catches.             *)
(***************************************************************************)
EXTENDS Integers, Sequences, FiniteSets, TLC

(* ---- bounds of the model ---- *)
MaxIssues == 2      \* most issues in the upstream repository
MaxExisting == 1    \* most issues in the fork before the first run
MaxRuns == 2        \* most runs of the script in one behaviour

(* ---- configuration of the script ---- *)
LABEL_PREFIX == "[Upstream]"
TRIAGE == "triage"
DONE_MESSAGE == "Issues synced successfully."

(* ---- values ---- *)
\* An optional string (a body that may be None) is <<>> or <<s>>.
None == <<>>
Some(s) == <<s>>

\* An issue of either repository.
Issue(title, body, html_url, labels, state) ==
  [title |-> title, body |-> body, html_url |-> html_url,
   labels |-> labels, state |-> state]

\* Contents an upstream issue may have (its url is set by its number).
SourceSamples ==
  { [title |-> "Bug A", body |-> Some("Steps"), state |-> "open"],
    [title |-> "Bug B", body |-> None, state |-> "open"],
    [title |-> "Bug A", body |-> Some("Again"), state |-> "closed"],
    [title |-> "[Upstream] Bug A", body |-> Some("Steps"), state |-> "open"] }

\* Issues the fork may hold before the first run (made by other actors).
ExistingSamples ==
  { [title |-> "Bug A", labels |-> {LABEL_PREFIX}, state |-> "open"],
    [title |-> "Bug A", labels |-> {}, state |-> "open"],
    [title |-> "Bug B", labels |-> {LABEL_PREFIX, "bug"}, state |-> "closed"],
    [title |-> "[Upstream] Bug A", labels |-> {LABEL_PREFIX}, state |-> "open"] }

\* Label sets the fork may define.
LabelSamples ==
  { {}, {TRIAGE, "bug"}, {LABEL_PREFIX, "bug"}, {TRIAGE, LABEL_PREFIX} }

SeqsUpTo(S, n) == UNION { [1..k -> S] : k \in 0..n }

UpstreamUrl(k) == "https://upstream/issues/" \o ToString(k)
ForkUrl(k) == "https://fork/issues/" \o ToString(k)

VARIABLES
  upstream,         \* issues of the upstream repository, by number
  forkIssues,       \* issues of the fork, by number
  forkLabels,       \* names of the labels the fork defines
  pc,               \* position of the script
  upstream_issues,  \* line 17
  pos,              \* position of the for loop in upstream_issues (0: before)
  existing,         \* line 22
  labels_to_apply,  \* lines 29-31
  stdout,           \* lines printed by the current run
  calls,            \* remote calls made by the current run, in order
  requests,         \* creation requests accepted by the fork, all runs
  run               \* number of the current run

vars == <<upstream, forkIssues, forkLabels, pc, upstream_issues, pos,
          existing, labels_to_apply, stdout, calls, requests, run>>

(* ---- the remote collaborator ---- *)

\* A listing that forgets the label filter.
GetIssuesAnyLabel(repo, state, labels) ==
  SelectSeq(repo, LAMBDA i : state = "all" \/ i.state = state)

\* repo.get_issues(state=..., labels=[...]): the issues in that state
\* ("all": any) that bear every label asked for, in order.
GetIssues(repo, state, labels) ==
  SelectSeq(repo, LAMBDA i :
     /\ (state = "all" \/ i.state = state)
     /\ labels \subseteq i.labels)

\* [l.name for l in fork.get_labels()]
GetLabelNames(labels) == labels

\* A creation that writes over the newest issue of the repository.
CreateIssueOverwriting(repo, title, body, labels) ==
  LET new == Issue(title, Some(body), ForkUrl(Len(repo) + 1),
                   { labels[k] : k \in 1..Len(labels) }, "open")
  IN IF repo = <<>> THEN <<new>> ELSE [repo EXCEPT ![Len(repo)] = new]

\* A creation that also tags the new issue with the marker label.
CreateIssueTagged(repo, title, body, labels) ==
  Append(repo, Issue(title, Some(body), ForkUrl(Len(repo) + 1),
                     { labels[k] : k \in 1..Len(labels) } \cup {LABEL_PREFIX},
                     "open"))

\* repo.create_issue(title, body, labels): a new open issue at the end.
CreateIssueIn(repo, title, body, labels) ==
  Append(repo, Issue(title, Some(body), ForkUrl(Len(repo) + 1),
                     { labels[k] : k \in 1..Len(labels) }, "open"))

(* ---- the script's pure steps ---- *)

\* str() of an optional string inside an f-string.
Format(body) == IF body = None THEN "None" ELSE body[1]

\* A duplicate check against the prefixed title.
AnyTitleMatchPrefixed(found, issue) ==
  \E k \in 1..Len(found) : found[k].title = LABEL_PREFIX \o " " \o issue.title

\* A duplicate check that never matches.
AnyTitleMatchNever(found, issue) == FALSE

\* any(i.title == issue.title for i in existing)
AnyTitleMatch(found, issue) ==
  \E k \in 1..Len(found) : found[k].title = issue.title

\* A title without the space after the marker.
CandidateTitleNoSpace(issue) == LABEL_PREFIX \o issue.title

\* f"{LABEL_PREFIX} {issue.title}"
CandidateTitle(issue) == LABEL_PREFIX \o " " \o issue.title

\* f"**Original Issue:** {issue.html_url}\n\n{issue.body}"
CandidateBody(issue) ==
  "**Original Issue:** " \o issue.html_url \o "\n\n" \o Format(issue.body)

\* Labels that hold "triage" whether or not the fork defines it.
LabelsToApplyAlways(available_labels) == <<TRIAGE>>

\* lines 29-31
LabelsToApply(available_labels) ==
  IF TRIAGE \in available_labels THEN <<TRIAGE>> ELSE <<>>

\* A loop that walks the list from its end.
ItemAtReversed(list, k) == list[Len(list) - k + 1]

\* The element the for loop binds at position k.
ItemAt(list, k) == list[k]

\* An exception of create_issue that is caught, the loop going on.
RaiseCaught(p) == IF p = "create" THEN "loop" ELSE "crashed"

\* Where an exception raised at position p takes the script: nothing
\* catches it, so the process ends.
Raise(p) == "crashed"

RemoteCalls ==
  {"get_upstream_repo", "get_fork_repo", "list_upstream", "get_existing",
   "get_labels", "create"}

Call(op, ok) == [op |-> op, pos |-> pos, ok |-> ok]

(* ---- initial state ---- *)
Init ==
  /\ \E s \in SeqsUpTo(SourceSamples, MaxIssues) :
       upstream = [k \in 1..Len(s) |->
                     Issue(s[k].title, s[k].body, UpstreamUrl(k), {}, s[k].state)]
  /\ \E s \in SeqsUpTo(ExistingSamples, MaxExisting) :
       forkIssues = [k \in 1..Len(s) |->
                     Issue(s[k].title, Some("text"), ForkUrl(k), s[k].labels, s[k].state)]
  /\ forkLabels \in LabelSamples
  /\ pc = "get_upstream_repo"
  /\ upstream_issues = <<>>
  /\ pos = 0
  /\ existing = <<>>
  /\ labels_to_apply = <<>>
  /\ stdout = <<>>
  /\ calls = <<>>
  /\ requests = <<>>
  /\ run = 1

(* ---- actions ---- *)

\* line 13
GetUpstreamRepo ==
  /\ pc = "get_upstream_repo"
  /\ pc' = "get_fork_repo"
  /\ calls' = Append(calls, Call("get_upstream_repo", TRUE))
  /\ UNCHANGED <<upstream, forkIssues, forkLabels, upstream_issues, pos,
                 existing, labels_to_apply, stdout, requests, run>>

\* line 14
GetForkRepo ==
  /\ pc = "get_fork_repo"
  /\ pc' = "list_upstream"
  /\ calls' = Append(calls, Call("get_fork_repo", TRUE))
  /\ UNCHANGED <<upstream, forkIssues, forkLabels, upstream_issues, pos,
                 existing, labels_to_apply, stdout, requests, run>>

\* line 17
ListUpstream ==
  /\ pc = "list_upstream"
  /\ upstream_issues' = GetIssues(upstream, "open", {})
  /\ pc' = "loop"
  /\ calls' = Append(calls, Call("list_upstream", TRUE))
  /\ UNCHANGED <<upstream, forkIssues, forkLabels, pos,
                 existing, labels_to_apply, stdout, requests, run>>

\* line 20: the loop takes the next issue
ForNext ==
  /\ pc = "loop"
  /\ pos < Len(upstream_issues)
  /\ pos' = pos + 1
  /\ pc' = "get_existing"
  /\ UNCHANGED <<upstream, forkIssues, forkLabels, upstream_issues,
                 existing, labels_to_apply, stdout, calls, requests, run>>

\* line 20: the list is exhausted
ForExit ==
  /\ pc = "loop"
  /\ pos >= Len(upstream_issues)
  /\ pc' = "print"
  /\ UNCHANGED <<upstream, forkIssues, forkLabels, upstream_issues, pos,
                 existing, labels_to_apply, stdout, calls, requests, run>>

\* line 22
GetExisting ==
  /\ pc = "get_existing"
  /\ existing' = GetIssues(forkIssues, "all", {LABEL_PREFIX})
  /\ pc' = "check"
  /\ calls' = Append(calls, Call("get_existing", TRUE))
  /\ UNCHANGED <<upstream, forkIssues, forkLabels, upstream_issues, pos,
                 labels_to_apply, stdout, requests, run>>

\* lines 23-24
CheckDuplicate ==
  /\ pc = "check"
  /\ pc' = IF AnyTitleMatch(existing, ItemAt(upstream_issues, pos))
             THEN "loop" ELSE "get_labels"
  /\ UNCHANGED <<upstream, forkIssues, forkLabels, upstream_issues, pos,
                 existing, labels_to_apply, stdout, calls, requests, run>>

\* lines 28-31
GetLabels ==
  /\ pc = "get_labels"
  /\ labels_to_apply' = LabelsToApply(GetLabelNames(forkLabels))
  /\ pc' = "create"
  /\ calls' = Append(calls, Call("get_labels", TRUE))
  /\ UNCHANGED <<upstream, forkIssues, forkLabels, upstream_issues, pos,
                 existing, stdout, requests, run>>

\* lines 33-37
CreateIssue ==
  /\ pc = "create"
  /\ LET issue == ItemAt(upstream_issues, pos)
         title == CandidateTitle(issue)
         body == CandidateBody(issue)
     IN /\ forkIssues' = CreateIssueIn(forkIssues, title, body, labels_to_apply)
        /\ requests' = Append(requests,
              [run |-> run, src |-> issue.html_url, title |-> title,
               body |-> body, labels |-> labels_to_apply])
  /\ pc' = "loop"
  /\ calls' = Append(calls, Call("create", TRUE))
  /\ UNCHANGED <<upstream, forkLabels, upstream_issues, pos,
                 existing, labels_to_apply, stdout, run>>

\* line 39
PrintDone ==
  /\ pc = "print"
  /\ stdout' = Append(stdout, DONE_MESSAGE)
  /\ pc' = "done"
  /\ UNCHANGED <<upstream, forkIssues, forkLabels, upstream_issues, pos,
                 existing, labels_to_apply, calls, requests, run>>

\* A remote call raises instead of returning.
Fault ==
  /\ pc \in RemoteCalls
  /\ calls' = Append(calls, Call(pc, FALSE))
  /\ pc' = Raise(pc)
  /\ UNCHANGED <<upstream, forkIssues, forkLabels, upstream_issues, pos,
                 existing, labels_to_apply, stdout, requests, run>>

\* The script is started again; the repositories are as the last run left
\* them.
Rerun ==
  /\ pc \in {"done", "crashed"}
  /\ run < MaxRuns
  /\ run' = run + 1
  /\ pc' = "get_upstream_repo"
  /\ upstream_issues' = <<>>
  /\ pos' = 0
  /\ existing' = <<>>
  /\ labels_to_apply' = <<>>
  /\ stdout' = <<>>
  /\ calls' = <<>>
  /\ UNCHANGED <<upstream, forkIssues, forkLabels, requests>>

Next ==
  \/ GetUpstreamRepo
  \/ GetForkRepo
  \/ ListUpstream
  \/ ForNext
  \/ ForExit
  \/ GetExisting
  \/ CheckDuplicate
  \/ GetLabels
  \/ CreateIssue
  \/ PrintDone
  \/ Fault
  \/ Rerun

Spec == Init /\ [][Next]_vars

TypeOK ==
  /\ pc \in RemoteCalls \cup {"loop", "check", "print", "done", "crashed"}
  /\ pos \in 0..Len(upstream_issues)
  /\ run \in 1..MaxRuns

(* ---- definitions used to state the properties ---- *)

\* Number of issues the fork held before the script first ran.
Base == IF Len(forkIssues) >= Len(requests)
          THEN Len(forkIssues) - Len(requests) ELSE 0

\* Numbers of the fork issues the script created.
CreatedNumbers == (Base + 1)..Len(forkIssues)

\* Numbers of the fork issues that bear the marker label.
TaggedNumbers ==
  { k \in 1..Len(forkIssues) : LABEL_PREFIX \in forkIssues[k].labels }

TaggedTitles == { forkIssues[k].title : k \in TaggedNumbers }

\* Numbers of the open upstream issues.
OpenNumbers == { k \in 1..Len(upstream) : upstream[k].state = "open" }

\* Open upstream issues that no tagged fork issue matches by title.
UnmatchedNumbers == { k \in OpenNumbers : upstream[k].title \notin TaggedTitles }

\* Indices into requests of the requests of run r (for upstream issue k).
RunRequests(r) == { j \in 1..Len(requests) : requests[j].run = r }
RequestsFor(r, k) ==
  { j \in RunRequests(r) : requests[j].src = upstream[k].html_url }

\* Number of the upstream issue a request was made for (0: none).
SrcNumber(q) ==
  IF \E k \in 1..Len(upstream) : upstream[k].html_url = q.src
    THEN CHOOSE k \in 1..Len(upstream) : upstream[k].html_url = q.src
    ELSE 0

\* Indices into calls of the calls of an operation that returned.
Returned(op) == { c \in 1..Len(calls) : calls[c].op = op /\ calls[c].ok }
FailedCalls == { c \in 1..Len(calls) : ~calls[c].ok }

(* ---- the properties ---- *)

\* C1: a source issue whose raw title is the title of a tagged fork issue
\* (of any state, as read when the source issue is processed) gets no
\* creation request: the script passes the check only when the listing just
\* read holds no issue of that title, and no request of any run is for a
\* source issue whose title some tagged fork issue has.
C1_NoRequestForDuplicate ==
  /\ pc \in {"get_labels", "create"} =>
       \A k \in 1..Len(existing) :
          existing[k].title # upstream_issues[pos].title
  /\ \A j \in 1..Len(requests) :
       /\ SrcNumber(requests[j]) # 0
       /\ upstream[SrcNumber(requests[j])].title \notin TaggedTitles

\* A run ended after skipping a source issue that a tagged fork issue matches.
C1_Witness ==
  /\ pc = "done"
  /\ \E k \in OpenNumbers :
       /\ upstream[k].title \in TaggedTitles
       /\ RequestsFor(run, k) = {}
       /\ \E c \in Returned("get_existing") :
            upstream_issues[calls[c].pos] = upstream[k]

\* C2: when a run ends without a fault, every open source issue that no
\* tagged fork issue matches by title has exactly one creation request of
\* that run, with title "[Upstream] " + title and body
\* "**Original Issue:** " + url + two newlines + body (a None body reads
\* "None"), and every request of the run is for such a source issue.
C2_ExactlyOneRequest ==
  pc = "done" =>
    /\ \A k \in UnmatchedNumbers :
         /\ Cardinality(RequestsFor(run, k)) = 1
         /\ \A j \in RequestsFor(run, k) :
              /\ requests[j].title = "[Upstream] " \o upstream[k].title
              /\ requests[j].body =
                   "**Original Issue:** " \o upstream[k].html_url \o "\n\n"
                     \o (IF upstream[k].body = <<>> THEN "None"
                         ELSE upstream[k].body[1])
    /\ \A j \in RunRequests(run) : SrcNumber(requests[j]) \in UnmatchedNumbers

\* A run ended having created two issues, one of them from a None body.
C2_Witness ==
  /\ pc = "done"
  /\ Cardinality(RunRequests(run)) = 2
  /\ \E k \in UnmatchedNumbers : upstream[k].body = <<>>

\* C3: every creation request, and the issue made from it, carries
\* ["triage"] when the fork defines the label "triage" and [] when it does
\* not; no other label is ever carried.
C3_TriageOnly ==
  /\ \A j \in 1..Len(requests) :
       requests[j].labels = IF "triage" \in forkLabels THEN <<"triage">> ELSE <<>>
  /\ \A n \in CreatedNumbers :
       forkIssues[n].labels = IF "triage" \in forkLabels THEN {"triage"} ELSE {}

\* Two requests were made against a fork that defines "triage" and "bug".
C3_Witness ==
  /\ Len(requests) >= 2
  /\ forkLabels = {"triage", "bug"}
  /\ \A j \in 1..Len(requests) : requests[j].labels = <<"triage">>

\* C4: the fork never holds two issues created by the script that have the
\* same synchronized title, over any number of runs and also when two source
\* issues share a title.
C4_NoTitleCreatedTwice ==
  \A m, n \in CreatedNumbers :
     forkIssues[m].title = forkIssues[n].title => m = n

C6_OnlyCreates ==
  [][ /\ upstream' = upstream
      /\ forkLabels' = forkLabels
      /\ Len(forkIssues') >= Len(forkIssues)
      /\ \A k \in 1..Len(forkIssues) :
           k <= Len(forkIssues') /\ forkIssues'[k] = forkIssues[k] ]_vars

\* The fork holds an issue of another actor and, after it, two created ones.
C6_Witness ==
  /\ Base >= 1
  /\ Len(requests) >= 2
  /\ Len(forkIssues) = Base + Len(requests)
  /\ forkIssues[1].body = <<"text">>

\* C7: a call that raised is the last call of its run and ends it: the
\* script is then stopped and has printed nothing; what it created before
\* is in the fork.  The completion message is printed at most once, and is
\* printed exactly when the run has ended with no call raised, every open
\* upstream issue listed and every listed issue processed.
C7_FirstFaultEndsRun ==
  /\ FailedCalls # {} =>
       /\ pc = "crashed"
       /\ FailedCalls = {Len(calls)}
       /\ stdout = <<>>
  /\ pc = "crashed" => FailedCalls # {}
  /\ stdout \in {<<>>, <<"Issues synced successfully.">>}
  /\ stdout # <<>> <=> pc = "done"
  /\ pc = "done" =>
       /\ Len(upstream_issues) = Cardinality(OpenNumbers)
       /\ pos = Len(upstream_issues)
       /\ \A p \in 1..Len(upstream_issues) :
            \E c \in Returned("get_existing") : calls[c].pos = p
  /\ Len(forkIssues) >= Len(requests)
  /\ \A j \in 1..Len(requests) :
       /\ forkIssues[Base + j].title = requests[j].title
       /\ forkIssues[Base + j].body = <<requests[j].body>>

\* A run stopped by a fault of its second creation, the first one in place.
C7_Witness ==
  /\ pc = "crashed"
  /\ calls[Len(calls)].op = "create"
  /\ ~calls[Len(calls)].ok
  /\ Cardinality(RunRequests(run)) = 1
  /\ stdout = <<>>

\* C8: the requests of a run are made in the order of the source issue
\* list, and the creation for a source issue comes after the read of the
\* tagged fork issues made for that same source issue.
C8_IterationOrder ==
  /\ \A i, j \in 1..Len(requests) :
       (i < j /\ requests[i].run = requests[j].run) =>
          SrcNumber(requests[i]) < SrcNumber(requests[j])
  /\ \A c, d \in Returned("create") : c < d => calls[c].pos < calls[d].pos
  /\ \A c \in 1..Len(calls) :
       calls[c].op = "create" =>
         \E g \in Returned("get_existing") :
            /\ g < c
            /\ calls[g].pos = calls[c].pos
            /\ \A h \in g + 1..c - 1 : calls[h].op = "get_labels"

\* A run has created two issues, for the first and then the second source.
C8_Witness ==
  /\ pc = "loop"
  /\ Cardinality(Returned("create")) = 2
  /\ Cardinality(RunRequests(run)) = 2
  /\ \E i, j \in RunRequests(run) :
       i < j /\ SrcNumber(requests[i]) = 1 /\ SrcNumber(requests[j]) = 2

\* C9 as stated: a run without a fault over n source issues reads the tagged
\* fork issues n times and the fork's labels n times.
C9_LabelsReadForEveryIssue ==
  pc = "done" =>
    /\ Cardinality(Returned("get_existing")) = Len(upstream_issues)
    /\ Cardinality(Returned("get_labels")) = Len(upstream_issues)

\* C9 amended: the tagged fork issues are read once for every source issue
\* processed; the fork's labels are read once for every source issue that is
\* not skipped as a duplicate and not at all for a skipped one.  A run
\* without a fault over n source issues makes n reads of the tagged issues
\* and as many reads of the labels as it makes creations.
C9_LabelsReadUnlessSkipped ==
  /\ \A p \in 1..Len(upstream_issues) :
       /\ LET reads == Cardinality({ c \in Returned("get_existing") :
                                        calls[c].pos = p })
          IN /\ reads <= 1
             /\ (p < pos \/ (p = pos /\ pc \notin {"get_existing", "crashed"}))
                  => reads = 1
             /\ (p > pos \/ (p = pos /\ pc = "get_existing")) => reads = 0
       /\ Cardinality({ c \in Returned("get_labels") : calls[c].pos = p }) <= 1
       /\ upstream_issues[p].title \in TaggedTitles =>
            { c \in 1..Len(calls) : calls[c].op = "get_labels" /\ calls[c].pos = p } = {}
  /\ pc = "done" =>
       /\ Cardinality(Returned("get_existing")) = Len(upstream_issues)
       /\ Cardinality(Returned("get_labels")) = Cardinality(UnmatchedNumbers)
       /\ Cardinality(Returned("get_labels")) = Cardinality(RunRequests(run))

\* A run ended having skipped one of its two source issues: two reads of the
\* tagged issues, one read of the labels.
C9_Witness ==
  /\ pc = "done"
  /\ Len(upstream_issues) = 2
  /\ Cardinality(Returned("get_existing")) = 2
  /\ Cardinality(Returned("get_labels")) = 1

\* C10: no issue the script created bears the marker label (its labels are
\* within {"triage"}; the marker is in its title), so the tagged issues of
\* the fork are those of other actors, and the listing read in any iteration
\* of any run is exactly those.
C10_PoolUntouched ==
  /\ \A n \in CreatedNumbers :
       /\ "[Upstream]" \notin forkIssues[n].labels
       /\ forkIssues[n].labels \subseteq {"triage"}
       /\ SubSeq(forkIssues[n].title, 1, 11) = "[Upstream] "
  /\ TaggedNumbers \subseteq 1..Base
  /\ pc \in {"check", "get_labels", "create"} =>
       /\ Len(existing) = Cardinality(TaggedNumbers)
       /\ \A k \in 1..Len(existing) :
            \E n \in TaggedNumbers : n <= Base /\ existing[k] = forkIssues[n]

\* In a second run, with created issues in the fork, the listing read holds
\* the one tagged issue of another actor.
C10_Witness ==
  /\ run = 2
  /\ pc = "check"
  /\ RunRequests(1) # {}
  /\ Len(existing) = 1
  /\ existing[1] = forkIssues[1]
====
